---- MODULE Spec2Model ----
(***************************************************************************)
(* A model of app.py: the module-level dataset load, the update_dashboard  *)
(* callback (filter -> aggregate -> forecast -> KPIs) and the              *)
(* handle_past_data callback over the past_views table.                    *)
(*                                                                         *)
(* Calendar dates are day numbers 1..MaxDay; DateText(d) is the ISO text   *)
(* the date picker holds for day d.  A missing numeric cell is NaN, a date *)
(* that did not parse is NaT.  A dropdown value is None or a list.         *)
(***************************************************************************)
EXTENDS Integers, Sequences, FiniteSets, TLC

\* ---------------------------------------------------------------- bounds
\* Data rows of the spreadsheet (below its four leading rows).
MaxRows == 2
\* Calendar days 1..MaxDay that a selection or an invoice can name.
MaxDay == 3
\* Save clicks over the life of the audit store.
MaxSaves == 3

\* ------------------------------------------------------- program constants
\* model.make_future_dataframe(periods=90)
ForecastPeriods == 90
\* df.iloc[3:]
LeadingRows == 3
\* df.iloc[1:]
HeaderRows == 1
\* if len(forecast_data) >= 2
MinForecastRows == 2

\* ------------------------------------------------------------ value encoding
\* The missing-value marker of a numeric cell (read_excel gives NaN).
NaN == -1
\* pd.to_datetime(..., errors="coerce") gives NaT for what does not parse.
NaT == 0

Days == 1..MaxDay

\* The text of day d as the spreadsheet and the date picker hold it.
DateText(d) == "2020-01-0" \o ToString(d)

\* A dropdown's value: None (never touched) or a list of names.
None == [none |-> TRUE, list |-> <<>>]
List(s) == [none |-> FALSE, list |-> s]

\* Python truthiness of a dropdown value: None and [] are falsy.
Truthy(v) == ~v.none /\ Len(v.list) > 0

\* Series.isin(values)
IsIn(x, v) == \E i \in 1..Len(v.list) : v.list[i] = x

Requests == {"r1", "r2"}

\* ------------------------------------------------------------ the spreadsheet
RawRow(i, d, reg, prod, price, units, total) ==
    [Index |-> i, InvoiceDate |-> d, Region |-> reg, Product |-> prod,
     PricePerUnit |-> price, UnitsSold |-> units, TotalSales |-> total]

\* The rows above the data: three title rows and the row of column names,
\* as read_excel returns them (text or nothing in every column).
TitleRow == RawRow(NaN, "", "", "", NaN, NaN, NaN)
NamesRow == RawRow(NaN, "Invoice Date", "Region", "Product", NaN, NaN, NaN)
LeadingSheetRows == <<TitleRow, TitleRow, TitleRow, NamesRow>>

\* Data rows a sheet can hold: well-formed sales, two sales on one day, a
\* date that does not parse, a sale of zero units, a missing price and a
\* missing unit count.
SheetRows ==
    { RawRow(1, DateText(1), "West", "Shoes", 50, 2, 100),
      RawRow(2, DateText(1), "West", "Apparel", 40, 30, 1200),
      RawRow(3, DateText(2), "East", "Shoes", 50, 1, 50),
      RawRow(4, DateText(MaxDay), "West", "Shoes", 45, 4, 180),
      RawRow(5, "n/a", "West", "Shoes", 50, 2, 100),
      RawRow(6, DateText(2), "West", "Shoes", 50, 0, 0),
      RawRow(7, DateText(2), "East", "Apparel", NaN, 1, 40),
      RawRow(8, DateText(MaxDay), "East", "Shoes", 45, NaN, 90) }

DataRowSeqs == UNION { [1..n -> SheetRows] : n \in 0..MaxRows }

Sheets == { LeadingSheetRows \o rows : rows \in DataRowSeqs }

\* ------------------------------------------------------------ dataset load
\* frame.iloc[n:]
ILocFrom(frame, n) == SubSeq(frame, n + 1, Len(frame))

\* pd.to_datetime(cell, errors="coerce")
ToDatetime(cell) ==
    IF \E d \in Days : DateText(d) = cell
    THEN CHOOSE d \in Days : DateText(d) = cell
    ELSE NaT

\* Lines 14-25: skip the leading rows, name the columns, skip the names row,
\* reset the index, parse the invoice date, drop the Index column.
DatasetLoad(sheet) ==
    LET rows == ILocFrom(ILocFrom(sheet, LeadingRows), HeaderRows)
    IN  [i \in 1..Len(rows) |->
            [idx |-> i - 1,
             InvoiceDate |-> ToDatetime(rows[i].InvoiceDate),
             Region |-> rows[i].Region,
             Product |-> rows[i].Product,
             PricePerUnit |-> rows[i].PricePerUnit,
             UnitsSold |-> rows[i].UnitsSold,
             TotalSales |-> rows[i].TotalSales]]

\* ------------------------------------------------------------ filter engine
Selection(a, b, regs, prods) ==
    [start_date |-> a, end_date |-> b,
     selected_regions |-> regs, selected_products |-> prods]

RegionChoices == {None, List(<<>>), List(<<"West">>), List(<<"East">>)}
ProductChoices == {None, List(<<"Shoes">>)}

Selections ==
    { Selection(a, b, regs, prods) :
        a \in Days, b \in Days, regs \in RegionChoices, prods \in ProductChoices }

\* A mutant: the upper date bound is exclusive.
DateMaskExclusiveEnd(row, s) ==
    /\ row.InvoiceDate # NaT
    /\ row.InvoiceDate >= s.start_date
    /\ row.InvoiceDate < s.end_date

\* Line 135: a comparison with NaT is False on both sides.
DateMask(row, s) ==
    /\ row.InvoiceDate # NaT
    /\ row.InvoiceDate >= s.start_date
    /\ row.InvoiceDate <= s.end_date

\* Line 135.
ByDate(table, s) == SelectSeq(table, LAMBDA row : DateMask(row, s))

\* Lines 137-138.
ByRegion(frame, s) ==
    IF Truthy(s.selected_regions)
    THEN SelectSeq(frame, LAMBDA row : IsIn(row.Region, s.selected_regions))
    ELSE frame

\* Lines 139-140.
ByProduct(frame, s) ==
    IF Truthy(s.selected_products)
    THEN SelectSeq(frame, LAMBDA row : IsIn(row.Product, s.selected_products))
    ELSE frame

\* A mutant: the loader's row skipping (iloc[1:]) repeated on the subset.
FilterSkipFirst(table, s) ==
    ILocFrom(ByProduct(ByRegion(ByDate(table, s), s), s), 1)

\* Lines 135-140.
Filter(table, s) == ByProduct(ByRegion(ByDate(table, s), s), s)

\* ------------------------------------------------- aggregation and KPIs
RECURSIVE SumSkipNaN(_)
\* Series.sum(): missing values are skipped, the empty sum is 0.
SumSkipNaN(values) ==
    IF values = <<>> THEN 0
    ELSE (IF Head(values) = NaN THEN 0 ELSE Head(values)) + SumSkipNaN(Tail(values))

RECURSIVE CountNotNaN(_)
CountNotNaN(values) ==
    IF values = <<>> THEN 0
    ELSE (IF Head(values) = NaN THEN 0 ELSE 1) + CountNotNaN(Tail(values))

Column(frame, name) == [i \in 1..Len(frame) |-> frame[i][name]]

SetMin(S) == CHOOSE x \in S : \A y \in S : x <= y

RECURSIVE SortedSeq(_)
\* The group keys in ascending order (groupby sorts its keys).
SortedSeq(S) ==
    IF S = {} THEN <<>>
    ELSE <<SetMin(S)>> \o SortedSeq(S \ {SetMin(S)})

\* The keys of groupby("Invoice Date"): a NaT key forms no group.
GroupKeys(frame) ==
    { frame[i].InvoiceDate : i \in 1..Len(frame) } \ {NaT}

GroupRows(frame, d) == SelectSeq(frame, LAMBDA row : row.InvoiceDate = d)

\* A mutant: each date keeps its last row's units instead of their sum.
DailyAggregateLast(frame) ==
    LET keys == SortedSeq(GroupKeys(frame))
    IN  [k \in 1..Len(keys) |->
            [InvoiceDate |-> keys[k],
             UnitsSold |-> LET g == GroupRows(frame, keys[k])
                           IN  SumSkipNaN(<<g[Len(g)].UnitsSold>>)]]

\* Lines 143 and 151: groupby("Invoice Date")["Units Sold"].sum().reset_index()
DailyAggregate(frame) ==
    LET keys == SortedSeq(GroupKeys(frame))
    IN  [k \in 1..Len(keys) |->
            [InvoiceDate |-> keys[k],
             UnitsSold |-> SumSkipNaN(Column(GroupRows(frame, keys[k]), "UnitsSold"))]]

\* Three digits, zero padded.
Pad3(n) ==
    IF n < 10 THEN "00" \o ToString(n)
    ELSE IF n < 100 THEN "0" \o ToString(n)
    ELSE ToString(n)

Pad2(n) == IF n < 10 THEN "0" \o ToString(n) ELSE ToString(n)

RECURSIVE FormatThousands(_)
\* format(n, ",.0f") of a whole number n >= 0.
FormatThousands(n) ==
    IF n < 1000 THEN ToString(n)
    ELSE FormatThousands(n \div 1000) \o "," \o Pad3(n % 1000)

\* format(total / count, ".2f"): the quotient rounded to the nearest cent,
\* a tie to the even cent (exact for the counts reached here, where the
\* mean is a binary fraction whenever a tie occurs).
FormatMean(total, count) ==
    LET q == (100 * total) \div count
        r == (100 * total) % count
        cents == IF 2 * r > count \/ (2 * r = count /\ q % 2 = 1) THEN q + 1 ELSE q
    IN  ToString(cents \div 100) \o "." \o Pad2(cents % 100)

\* Line 168: Series.mean() skips missing values and is NaN when none is
\* left; format(nan, ".2f") is "nan".
AvgPriceText(frame) ==
    LET prices == Column(frame, "PricePerUnit")
    IN  IF CountNotNaN(prices) = 0 THEN "Avg Price: $nan"
        ELSE "Avg Price: $" \o FormatMean(SumSkipNaN(prices), CountNotNaN(prices))

\* Line 166.
TotalSalesText(frame) ==
    "Total Sales: $" \o FormatThousands(SumSkipNaN(Column(frame, "TotalSales")))

\* Line 167.
TotalUnitsText(frame) ==
    "Units Sold: " \o FormatThousands(SumSkipNaN(Column(frame, "UnitsSold")))

\* ------------------------------------------------------------ figures
\* Line 144: px.line(sales_agg, ...)
TrendFigure(sales_agg) == [title |-> "Sales Trend Over Time", data |-> sales_agg]

\* Line 147: px.pie(filtered_df, names="Product", values="Total Sales", ...)
PieFigure(frame) ==
    [title |-> "Sales Breakdown by Product",
     data |-> [i \in 1..Len(frame) |->
                  [idx |-> frame[i].idx, Product |-> frame[i].Product,
                   TotalSales |-> frame[i].TotalSales]]]

\* Line 150: px.line(title="Sales Forecast"), a figure with a title only.
PlaceholderForecast ==
    [title |-> "Sales Forecast", fitted |-> FALSE, history |-> <<>>, periods |-> 0]

\* Lines 155-163: the model fitted on forecast_data and asked for the
\* observed dates plus ForecastPeriods days; its predictions are the
\* library's and are not modelled.
FittedForecast(forecast_data) ==
    [title |-> "Sales Forecast", fitted |-> TRUE, history |-> forecast_data,
     periods |-> ForecastPeriods]

\* A mutant: the model is fitted on any frame with a row.
ForecastFigureFromOneRow(frame) ==
    LET forecast_data == DailyAggregate(frame)
    IN  IF Len(forecast_data) >= 1 THEN FittedForecast(forecast_data)
        ELSE PlaceholderForecast

\* Lines 149-163.
ForecastFigure(frame) ==
    LET forecast_data == DailyAggregate(frame)
    IN  IF Len(forecast_data) >= MinForecastRows THEN FittedForecast(forecast_data)
        ELSE PlaceholderForecast

\* ------------------------------------------------------------ audit log
RECURSIVE JoinRepr(_)
\* The elements of a list as str() writes them: each name's repr, ", " between.
JoinRepr(names) ==
    IF names = <<>> THEN ""
    ELSE IF Len(names) = 1 THEN "'" \o names[1] \o "'"
    ELSE "'" \o names[1] \o "', " \o JoinRepr(Tail(names))

RECURSIVE JoinPlain(_)
JoinPlain(names) ==
    IF names = <<>> THEN ""
    ELSE IF Len(names) = 1 THEN names[1]
    ELSE names[1] \o "," \o JoinPlain(Tail(names))

\* A mutant: the names joined by commas, a missing value as the empty text.
PyStrJoined(v) == IF v.none THEN "" ELSE JoinPlain(v.list)

\* Line 192: str(regions), str(products).
PyStr(v) == IF v.none THEN "None" ELSE "[" \o JoinRepr(v.list) \o "]"

RECURSIVE MaxId(_)
\* The largest id in the table, 0 when it is empty.
MaxId(rows) ==
    IF rows = <<>> THEN 0
    ELSE LET m == MaxId(Tail(rows))
         IN  IF Head(rows).id > m THEN Head(rows).id ELSE m

\* A mutant: INTEGER PRIMARY KEY without AUTOINCREMENT, one more than the
\* largest id in the table.
RowIdFromTable(rows, counter) == MaxId(rows) + 1

\* Line 35: id INTEGER PRIMARY KEY AUTOINCREMENT, one more than the largest
\* id the table ever held, which sqlite_sequence keeps.
RowId(rows, counter) ==
    (IF MaxId(rows) > counter THEN MaxId(rows) ELSE counter) + 1

\* Lines 191-192: the row the INSERT adds.
InsertedRow(rows, counter, s) ==
    [id |-> RowId(rows, counter),
     start_date |-> DateText(s.start_date),
     end_date |-> DateText(s.end_date),
     selected_regions |-> PyStr(s.selected_regions),
     selected_products |-> PyStr(s.selected_products)]

\* A mutant: the newest row alone is deleted.
DeleteNewest(rows) == IF rows = <<>> THEN <<>> ELSE SubSeq(rows, 1, Len(rows) - 1)

\* Line 196: DELETE FROM past_views.
DeleteFrom(rows) == <<>>

\* Lines 199-200: SELECT * FROM past_views, shown in a Pre.
PastData(rows) == [triggered |-> TRUE, past_data |-> rows]

\* The selections the controls hold when a button is clicked.
AuditSelections ==
    { Selection(1, MaxDay, None, None),
      Selection(1, 1, List(<<"West">>), List(<<"Shoes">>)),
      Selection(2, 2, List(<<"West", "East">>), List(<<>>)) }

\* ------------------------------------------------------------ state
VARIABLES
    sheet,            \* the frame read_excel returns for the data sheet
    df,               \* the module-level transaction table
    loaded,           \* the module's top-level code has run
    pc,               \* per request: where update_dashboard stands
    args,             \* per request: the callback's four arguments
    filtered_df,      \* per request: the local filtered_df
    sales_trend_fig,  \* per request: the local sales_trend_fig
    sales_pie_fig,    \* per request: the local sales_pie_fig
    forecast_fig,     \* per request: the local forecast_fig
    kpis,             \* per request: total_sales, total_units, avg_price
    store,            \* the rows of past_views, in rowid order
    seq,              \* sqlite_sequence's counter for past_views
    output,           \* what handle_past_data last returned
    button_id,        \* the control that triggered handle_past_data last
    issued,           \* history: every id the store has assigned, in order
    sinceDelete       \* history: the selections saved since the last delete

dashVars == <<pc, args, filtered_df, sales_trend_fig, sales_pie_fig, forecast_fig, kpis>>
auditVars == <<store, seq, output, button_id, issued, sinceDelete>>
vars == <<sheet, df, loaded, dashVars, auditVars>>

NoFigure == [title |-> "", data |-> <<>>]
NoForecast == [title |-> "", fitted |-> FALSE, history |-> <<>>, periods |-> 0]
NoKpis == [total_sales |-> "", total_units |-> "", avg_price |-> ""]
NoOutput == [triggered |-> FALSE, past_data |-> <<>>]

Init ==
    /\ sheet \in Sheets
    /\ df = <<>>
    /\ loaded = FALSE
    /\ pc = [r \in Requests |-> "idle"]
    /\ args = [r \in Requests |-> Selection(1, 1, None, None)]
    /\ filtered_df = [r \in Requests |-> <<>>]
    /\ sales_trend_fig = [r \in Requests |-> NoFigure]
    /\ sales_pie_fig = [r \in Requests |-> NoFigure]
    /\ forecast_fig = [r \in Requests |-> NoForecast]
    /\ kpis = [r \in Requests |-> NoKpis]
    /\ store = <<>>
    /\ seq = 0
    /\ output = NoOutput
    /\ button_id = ""
    /\ issued = <<>>
    /\ sinceDelete = <<>>

\* ------------------------------------------------------------ module load
\* Lines 14-42: the table is built once; past_views is created if absent.
Load ==
    /\ ~loaded
    /\ df' = DatasetLoad(sheet)
    /\ loaded' = TRUE
    /\ UNCHANGED <<sheet, dashVars, auditVars>>

\* ------------------------------------------------------------ update_dashboard
\* A mutant: filtered_df is one module-level name shared by every request.
AssignGlobal(r, frame) == [q \in Requests |-> frame]

\* The assignment to the local name filtered_df of request r's frame.
AssignLocal(r, frame) == [filtered_df EXCEPT ![r] = frame]

\* Lines 134-140: the callback is entered with a selection and filters df.
Call(r, s) ==
    /\ loaded
    /\ pc[r] = "idle"
    /\ args' = [args EXCEPT ![r] = s]
    /\ filtered_df' = AssignLocal(r, Filter(df, s))
    /\ pc' = [pc EXCEPT ![r] = "trend"]
    /\ UNCHANGED <<sheet, df, loaded, sales_trend_fig, sales_pie_fig,
                   forecast_fig, kpis, auditVars>>

\* Lines 143-144.
SalesTrend(r) ==
    /\ pc[r] = "trend"
    /\ sales_trend_fig' =
          [sales_trend_fig EXCEPT ![r] = TrendFigure(DailyAggregate(filtered_df[r]))]
    /\ pc' = [pc EXCEPT ![r] = "pie"]
    /\ UNCHANGED <<sheet, df, loaded, args, filtered_df, sales_pie_fig,
                   forecast_fig, kpis, auditVars>>

\* Line 147.
SalesPie(r) ==
    /\ pc[r] = "pie"
    /\ sales_pie_fig' = [sales_pie_fig EXCEPT ![r] = PieFigure(filtered_df[r])]
    /\ pc' = [pc EXCEPT ![r] = "forecast"]
    /\ UNCHANGED <<sheet, df, loaded, args, filtered_df, sales_trend_fig,
                   forecast_fig, kpis, auditVars>>

\* Lines 149-163.
Forecasting(r) ==
    /\ pc[r] = "forecast"
    /\ forecast_fig' = [forecast_fig EXCEPT ![r] = ForecastFigure(filtered_df[r])]
    /\ pc' = [pc EXCEPT ![r] = "kpis"]
    /\ UNCHANGED <<sheet, df, loaded, args, filtered_df, sales_trend_fig,
                   sales_pie_fig, kpis, auditVars>>

\* Lines 165-170: the three texts are formatted and the six outputs returned.
KPIs(r) ==
    /\ pc[r] = "kpis"
    /\ kpis' = [kpis EXCEPT ![r] =
                   [total_sales |-> TotalSalesText(filtered_df[r]),
                    total_units |-> TotalUnitsText(filtered_df[r]),
                    avg_price |-> AvgPriceText(filtered_df[r])]]
    /\ pc' = [pc EXCEPT ![r] = "done"]
    /\ UNCHANGED <<sheet, df, loaded, args, filtered_df, sales_trend_fig,
                   sales_pie_fig, forecast_fig, auditVars>>

\* The response has been sent: the frame of the call and its locals are gone.
Finish(r) ==
    /\ pc[r] = "done"
    /\ pc' = [pc EXCEPT ![r] = "idle"]
    /\ args' = [args EXCEPT ![r] = Selection(1, 1, None, None)]
    /\ filtered_df' = [filtered_df EXCEPT ![r] = <<>>]
    /\ sales_trend_fig' = [sales_trend_fig EXCEPT ![r] = NoFigure]
    /\ sales_pie_fig' = [sales_pie_fig EXCEPT ![r] = NoFigure]
    /\ forecast_fig' = [forecast_fig EXCEPT ![r] = NoForecast]
    /\ kpis' = [kpis EXCEPT ![r] = NoKpis]
    /\ UNCHANGED <<sheet, df, loaded, auditVars>>

\* ------------------------------------------------------------ handle_past_data
\* Lines 185-186: nothing triggered the callback (the page's first load).
NotTriggered ==
    /\ loaded
    /\ output' = NoOutput
    /\ button_id' = ""
    /\ UNCHANGED <<sheet, df, loaded, dashVars, store, seq, issued, sinceDelete>>

\* Lines 190-193 and 199-200: Save View.
SaveView(s) ==
    /\ loaded
    /\ Len(issued) < MaxSaves
    /\ LET row == InsertedRow(store, seq, s)
       IN  /\ store' = Append(store, row)
           /\ seq' = row.id
           /\ issued' = Append(issued, row.id)
           /\ output' = PastData(Append(store, row))
    /\ sinceDelete' = Append(sinceDelete, s)
    /\ button_id' = "save-view-btn"
    /\ UNCHANGED <<sheet, df, loaded, dashVars>>

\* Lines 199-200: View Past Data.
ViewPast ==
    /\ loaded
    /\ output' = PastData(store)
    /\ button_id' = "view-past-btn"
    /\ UNCHANGED <<sheet, df, loaded, dashVars, store, seq, issued, sinceDelete>>

\* Lines 195-200: Delete All.
DeleteAll ==
    /\ loaded
    /\ store' = DeleteFrom(store)
    /\ output' = PastData(DeleteFrom(store))
    /\ sinceDelete' = <<>>
    /\ button_id' = "delete-all-btn"
    /\ UNCHANGED <<sheet, df, loaded, dashVars, seq, issued>>

\* The steps of request r's call.
Steps(r) ==
    \/ SalesTrend(r)
    \/ SalesPie(r)
    \/ Forecasting(r)
    \/ KPIs(r)
    \/ Finish(r)

\* The dashboard with one request at a time and any selection.
Next ==
    \/ Load
    \/ \E s \in Selections : Call("r1", s)
    \/ Steps("r1")

Spec == Init /\ [][Next]_vars

\* The dashboard with the calls of two requests interleaved, on sheets of
\* well-formed rows and selections from the first day on.
ConcSheetRows == { row \in SheetRows : row.Index \in {1, 3, 4} }

ConcSheets ==
    { LeadingSheetRows \o rows :
        rows \in UNION { [1..n -> ConcSheetRows] : n \in 0..MaxRows } }

ConcSelections ==
    { s \in Selections :
        /\ s.start_date = 1
        /\ s.selected_regions \in {None, List(<<"West">>)}
        /\ s.selected_products = None }

ConcInit == Init /\ sheet \in ConcSheets

ConcNext ==
    \/ Load
    \/ \E r \in Requests : \E s \in ConcSelections : Call(r, s)
    \/ \E r \in Requests : Steps(r)

ConcSpec == ConcInit /\ [][ConcNext]_vars

\* The audit panel: the three buttons in any order, over an empty sheet.
AuditInit == Init /\ sheet = LeadingSheetRows

AuditNext ==
    \/ Load
    \/ NotTriggered
    \/ \E s \in AuditSelections : SaveView(s)
    \/ ViewPast
    \/ DeleteAll

AuditSpec == AuditInit /\ [][AuditNext]_vars

\* ------------------------------------------------------------ properties
RowsOf(frame) == { frame[i] : i \in 1..Len(frame) }

RECURSIVE Total(_)
Total(values) == IF values = <<>> THEN 0 ELSE Head(values) + Total(Tail(values))

\* The names a dropdown value holds; none when it is None or [].
NameSet(v) == { v.list[i] : i \in 1..Len(v.list) }

\* The distinct observed dates of a frame.
ObservedDates(frame) == { row.InvoiceDate : row \in RowsOf(frame) }

\* C1: whenever the filtered subset is empty, the three returned KPI texts
\* are "Total Sales: $0", "Units Sold: 0" and "Avg Price: $0".
C1_EmptySubsetPlaceholders ==
    \A r \in Requests :
        (pc[r] = "done" /\ filtered_df[r] = <<>>) =>
            kpis[r] = [total_sales |-> "Total Sales: $0",
                       total_units |-> "Units Sold: 0",
                       avg_price |-> "Avg Price: $0"]

\* C4: with fewer than two distinct observed dates in the filtered subset the
\* forecast figure is the title-only placeholder and no model was fitted; a
\* model is fitted exactly when there are at least two distinct dates.
C4_ForecastNeedsTwoDates ==
    \A r \in Requests :
        pc[r] \in {"kpis", "done"} =>
            LET n == Cardinality(ObservedDates(filtered_df[r]))
            IN  /\ n < 2 => forecast_fig[r] = PlaceholderForecast
                /\ forecast_fig[r].fitted <=> n >= 2

\* A non-empty subset with one observed date got the placeholder.
C4_Witness ==
    \E r \in Requests :
        /\ pc[r] = "done"
        /\ Cardinality(ObservedDates(filtered_df[r])) = 1
        /\ forecast_fig[r] = PlaceholderForecast

\* C5: the Units Sold KPI is the formatted sum of the daily aggregate's
\* values, the aggregate being the one the trend figure was drawn from.
C5_AggregationConsistency ==
    \A r \in Requests :
        pc[r] = "done" =>
            kpis[r].total_units =
                "Units Sold: " \o
                FormatThousands(Total(Column(sales_trend_fig[r].data, "UnitsSold")))

\* Two rows of the subset fell on one date and were summed into one value.
C5_Witness ==
    \E r \in Requests :
        /\ pc[r] = "done"
        /\ Len(sales_trend_fig[r].data) = 1
        /\ Len(filtered_df[r]) = 2
        /\ filtered_df[r][1].UnitsSold > 0
        /\ filtered_df[r][2].UnitsSold > 0

\* C6: filtering the filtered subset again with the same selection gives
\* the same subset.
C6_FilterIdempotent ==
    \A r \in Requests :
        pc[r] # "idle" => Filter(filtered_df[r], args[r]) = filtered_df[r]

\* A selection kept one row of the table and dropped another.
C6_Witness ==
    \E r \in Requests :
        /\ pc[r] # "idle"
        /\ Len(filtered_df[r]) > 0
        /\ Len(filtered_df[r]) < Len(df)

\* C7: the filtered subset holds exactly the records of the table dated
\* within [start_date, end_date], of a selected region when any is selected
\* and of a selected product when any is selected, each once and in the
\* table's order.
C7_Matches(row, s) ==
    /\ \E d \in Days : d = row.InvoiceDate /\ s.start_date <= d /\ d <= s.end_date
    /\ NameSet(s.selected_regions) # {} => row.Region \in NameSet(s.selected_regions)
    /\ NameSet(s.selected_products) # {} => row.Product \in NameSet(s.selected_products)

C7_FilterExact ==
    \A r \in Requests :
        pc[r] # "idle" =>
            /\ RowsOf(filtered_df[r]) = { row \in RowsOf(df) : C7_Matches(row, args[r]) }
            /\ \A i, j \in 1..Len(filtered_df[r]) :
                  i < j => filtered_df[r][i].idx < filtered_df[r][j].idx

\* A record dated on the end date was kept by a selection that names a
\* region, and another record was dropped.
C7_Witness ==
    \E r \in Requests :
        /\ pc[r] # "idle"
        /\ args[r].start_date < args[r].end_date
        /\ Truthy(args[r].selected_regions)
        /\ \E row \in RowsOf(filtered_df[r]) : row.InvoiceDate = args[r].end_date
        /\ Len(filtered_df[r]) < Len(df)

\* C8: once loaded, every record of the table has a valid invoice date and
\* strictly positive units sold, total sales and price per unit.
C8_TableIsClean ==
    loaded =>
        \A row \in RowsOf(df) :
            /\ row.InvoiceDate \in Days
            /\ row.UnitsSold # NaN /\ row.UnitsSold > 0
            /\ row.TotalSales # NaN /\ row.TotalSales > 0
            /\ row.PricePerUnit # NaN /\ row.PricePerUnit > 0

\* C9: with calls interleaved, the outputs a call has computed so far are
\* all those of the subset its own selection filters out of the table, and
\* the table is the one the load built.
C9_Computed(r, stages) == pc[r] \in stages

C9_OneSnapshot ==
    /\ loaded => df = DatasetLoad(sheet)
    /\ \A r \in Requests :
          LET subset == Filter(df, args[r])
          IN  /\ C9_Computed(r, {"pie", "forecast", "kpis", "done"}) =>
                    sales_trend_fig[r] = TrendFigure(DailyAggregate(subset))
              /\ C9_Computed(r, {"forecast", "kpis", "done"}) =>
                    sales_pie_fig[r] = PieFigure(subset)
              /\ C9_Computed(r, {"kpis", "done"}) =>
                    forecast_fig[r] = ForecastFigure(subset)
              /\ C9_Computed(r, {"done"}) =>
                    kpis[r] = [total_sales |-> TotalSalesText(subset),
                               total_units |-> TotalUnitsText(subset),
                               avg_price |-> AvgPriceText(subset)]

\* One call has returned while another, entered with a selection that
\* filters a different subset, is between its filter and its return.
C9_Witness ==
    /\ pc["r1"] = "done"
    /\ pc["r2"] \in {"trend", "pie", "forecast", "kpis"}
    /\ Filter(df, args["r1"]) # Filter(df, args["r2"])

\* The text str() gives for each dropdown value the audit panel can hold.
ReprText(v) ==
    CASE v = None -> "None"
      [] v = List(<<>>) -> "[]"
      [] v = List(<<"West">>) -> "['West']"
      [] v = List(<<"Shoes">>) -> "['Shoes']"
      [] v = List(<<"West", "East">>) -> "['West', 'East']"

\* Row `row` of the store holds selection s as text.
HoldsSelection(row, s) ==
    /\ row.start_date = DateText(s.start_date)
    /\ row.end_date = DateText(s.end_date)
    /\ row.selected_regions = ReprText(s.selected_regions)
    /\ row.selected_products = ReprText(s.selected_products)

\* C2: after a save, the last record of the list shown holds the start
\* date, end date, regions and products that were saved, as text.
C2_SaveRoundTrip ==
    button_id = "save-view-btn" =>
        /\ output.triggered
        /\ output.past_data # <<>>
        /\ HoldsSelection(output.past_data[Len(output.past_data)],
                          sinceDelete[Len(sinceDelete)])

\* A list of two regions was saved into a store that already held a record.
C2_Witness ==
    /\ button_id = "save-view-btn"
    /\ Len(output.past_data) >= 2
    /\ sinceDelete[Len(sinceDelete)].selected_regions = List(<<"West", "East">>)

\* C3: after a delete-all the store holds no record and the list shown is
\* empty.
C3_DeleteAllEmpties ==
    button_id = "delete-all-btn" =>
        /\ store = <<>>
        /\ output = [triggered |-> TRUE, past_data |-> <<>>]

\* A delete-all that followed two saves.
C3_Witness ==
    /\ button_id = "delete-all-btn"
    /\ Len(issued) >= 2
    /\ seq >= 2

\* C10: the list shown holds exactly the selections saved since the last
\* delete-all, one record each, in the order saved, with strictly increasing
\* ids; no id is ever assigned twice; a view leaves the store as it was.
C10_ListShown ==
    /\ output.triggered =>
          /\ output.past_data = store
          /\ Len(store) = Len(sinceDelete)
          /\ \A i \in 1..Len(store) : HoldsSelection(store[i], sinceDelete[i])
          /\ \A i \in 1..Len(store) :
                store[i].id = issued[Len(issued) - Len(store) + i]
    /\ \A i, j \in 1..Len(issued) : i < j => issued[i] < issued[j]

C10_AuditListing ==
    /\ []C10_ListShown
    /\ [][button_id' = "view-past-btn" => store' = store]_vars

\* A save that followed a delete-all that followed a save.
C10_Witness ==
    /\ button_id = "save-view-btn"
    /\ store # <<>>
    /\ Len(issued) > Len(store)

====
